---- MODULE Spec2Model ----
(***************************************************************************)
(* Order lifecycle and reconciliation of CrossChainPayment: the webhook    *)
(* handler (POST /api/webhooks/sideshift), PaymentService                  *)
(* (createPayment, updateOrderStatus, pollShiftStatus), the poll route and *)
(* the monitorPayments sweep, over the PaymentOrder and WebhookEvent       *)
(* collections.                                                            *)
(*                                                                         *)
(* Every `await` of the source is a point where another request may run,   *)
(* so each handler is a sequence of steps of one worker (a request being   *)
(* served); a store read and the store write that follows it are two       *)
(* steps.  Time is counted in minutes.                                     *)
(***************************************************************************)
EXTENDS Integers, Sequences, FiniteSets, TLC

\* ------------------------------------------------------------------ bounds
MaxOrders == 1
MaxOps == 2
MaxSweeps == 2
MaxRuns == 3
MaxRaces == 1
MaxTicks == 1
MaxEntries == 3

\* ------------------------------------------------------- program constants
\* monitor-payments.ts:39  (2 * 60 * 1000 ms)
ReminderWindow == 2
\* monitor-payments.ts:78  (60 * 60 * 1000 ms)
StuckAge == 60
\* monitor-payments.ts:60  (24 * 60 * 60 * 1000 ms)
AbandonedAge == 1440

\* the slots in which requests are served: two requests may overlap
Workers == {1, 2}
OrderIds == 1..(MaxOrders + 1)
NoOrder == 0
None == "none"

\* shiftId of the order with orderId o (shift.id of createFixedShift)
ShiftOf(o) == o
\* a shift id that no order stored by CreatePayment carries
StrayShift == MaxOrders + 1
\* the falsy/missing `id` of a webhook body
NoShift == 0

\* minutes by which the clock may jump between two steps
TickSteps == {9, 61, 1441}
\* shift.expiresAt - now, as the provider sets it
QuoteTTL == 10

\* ------------------------------------------------------------ status tables
PaymentStatuses ==
    {"pending", "detecting", "processing", "settling", "completed",
     "expired", "failed", "refunded", "underpaid", "overpaid"}

\* the provider's status strings (ShiftStatusSchema)
ShiftStatuses ==
    {"waiting", "pending", "processing", "settling", "settled",
     "refund", "refunded", "expired"}

\* status values a webhook body may carry: a provider status, a string the
\* table does not have, a string that names a property every object inherits
\* (statusMap is an object literal), or no status at all
WebhookStatuses == ShiftStatuses \cup {"bogus", "constructor", None}

\* statusMap with 'refund' mapped to underpaid
statusMapRefundAsUnderpaid(s) ==
    CASE s = "waiting"    -> "pending"
      [] s = "pending"    -> "detecting"
      [] s = "processing" -> "processing"
      [] s = "settling"   -> "settling"
      [] s = "settled"    -> "completed"
      [] s = "refund"     -> "underpaid"
      [] s = "refunded"   -> "refunded"
      [] s = "expired"    -> "expired"
      [] s = "constructor" -> "inherited"
      [] OTHER            -> "undefined"

\* statusMap with 'refund' mapped like 'refunded'
statusMapRefundAsRefunded(s) ==
    CASE s = "waiting"    -> "pending"
      [] s = "pending"    -> "detecting"
      [] s = "processing" -> "processing"
      [] s = "settling"   -> "settling"
      [] s = "settled"    -> "completed"
      [] s = "refund"     -> "refunded"
      [] s = "refunded"   -> "refunded"
      [] s = "expired"    -> "expired"
      [] s = "constructor" -> "inherited"
      [] OTHER            -> "undefined"

\* statusMap[status]: the mapped PaymentStatus, "undefined" (falsy) for a key
\* that is absent, "inherited" for a key found on Object.prototype (truthy,
\* not a PaymentStatus)
statusMap(s) ==
    CASE s = "waiting"    -> "pending"
      [] s = "pending"    -> "detecting"
      [] s = "processing" -> "processing"
      [] s = "settling"   -> "settling"
      [] s = "settled"    -> "completed"
      [] s = "refund"     -> "failed"
      [] s = "refunded"   -> "refunded"
      [] s = "expired"    -> "expired"
      [] s = "constructor" -> "inherited"
      [] OTHER            -> "undefined"

\* the statuses updateOrderStatus refuses to leave
GuardedStatuses == {"completed", "refunded", "expired"}

\* the terminal statuses of the order lifecycle
TerminalStatuses == {"completed", "expired", "failed", "refunded"}

\* the enum validator of PaymentOrderSchema.status, run by save()
StatusValid(s) == s \in PaymentStatuses

\* ------------------------------------------------------------------- notes
NoteCreated == <<"Payment created, waiting for deposit">>
NoteQuoteExpired == <<"Quote expired without deposit">>
NoteAbandoned == <<"Abandoned - 24 hours without deposit">>
NoteWebhook(s) == <<"Webhook: ", s>>
NotePoll(s) == <<"SideShift status: ", s>>
NoNote == <<>>

\* ------------------------------------------------------------------- state
VARIABLES
    orders,     \* the PaymentOrder collection, by orderId
    events,     \* the WebhookEvent collection, in order of insertion
    workers,    \* the requests being served: position and local variables
    clock,      \* the wall clock (new Date()), in minutes
    hookCalls,  \* per order, the calls of handleOrderCompletion so far
    reminders,  \* per order, the expiry reminders logged so far
    nOps,       \* webhook and poll requests started so far
    nSweeps,    \* sweeps started so far
    nRaces,     \* requests started while another one was being served
    nTicks      \* clock jumps so far

vars == <<orders, events, workers, clock, hookCalls, reminders, nOps, nSweeps, nRaces, nTicks>>

NoTime == -1

\* a slot of the collection that holds no document yet
NoDocument ==
    [exists |-> FALSE, shiftId |-> NoShift, status |-> None,
     statusHistory |-> <<>>, depositTxHash |-> None, settleTxHash |-> None,
     quoteExpiresAt |-> NoTime, expiryReminderSent |-> FALSE,
     completedAt |-> NoTime, createdAt |-> NoTime, updatedAt |-> NoTime]

\* a request slot that serves nothing; also the blank set of locals
IdleWorker ==
    [op |-> "idle", pc |-> "idle",
     \* webhook body: id, status, depositHash, settleHash; the audit record
     shiftId |-> NoShift, status |-> None, depositHash |-> None,
     settleHash |-> None, evt |-> 0,
     \* updateOrderStatus / pollShiftStatus: arguments and the loaded document
     oid |-> NoOrder, newStatus |-> None, note |-> NoNote,
     mDeposit |-> None, mSettle |-> None,
     docStatus |-> None, docDeposit |-> None, docSettle |-> None,
     \* monitorPayments: now, the rule being run, its position, the four lists
     at |-> NoTime, now |-> NoTime, rule |-> 0, idx |-> 0,
     expiredPending |-> <<>>, expiringSoon |-> <<>>,
     abandonedOrders |-> <<>>, stuckPayments |-> <<>>,
     \* the response: HTTP status, the body's success and error fields; the
     \* last line the request logged
     resp |-> 0, success |-> FALSE, error |-> None, log |-> None,
     \* the cron request: CRON_SECRET and the authorization header; the store
     \* as the run of monitorPayments found it when it started
     secret |-> None, auth |-> None, atStart |-> <<>>,
     \* requestQuote / createPayment: the two amounts, the quote received,
     \* the number of requests sent to the provider
     depositAmount |-> None, settleAmount |-> None, quote |-> None,
     posted |-> 0]

Init ==
    /\ orders = [o \in OrderIds |-> NoDocument]
    /\ events = <<>>
    /\ workers = [w \in Workers |-> IdleWorker]
    /\ clock = 0
    /\ hookCalls = [o \in OrderIds |-> 0]
    /\ reminders = [o \in OrderIds |-> 0]
    /\ nOps = 0
    /\ nSweeps = 0
    /\ nRaces = 0
    /\ nTicks = 0

\* ----------------------------------------------------------------- helpers
Free(w) == workers[w].pc \in {"idle", "done"}

\* no request is being served
Quiet == \A w \in Workers : Free(w)

\* a request (or, with sweep, a run of the monitor) arrives and is served in
\* the first slot that is free
Admit(w, sweep) ==
    /\ Free(w)
    /\ \A v \in Workers : v < w => ~Free(v)
    /\ nOps + nSweeps < MaxRuns
    /\ IF sweep
       THEN nSweeps < MaxSweeps /\ nSweeps' = nSweeps + 1 /\ nOps' = nOps
       ELSE nOps < MaxOps /\ nOps' = nOps + 1 /\ nSweeps' = nSweeps
    /\ IF Quiet THEN nRaces' = nRaces
       ELSE nRaces < MaxRaces /\ nRaces' = nRaces + 1

RECURSIVE SortedSeq(_)
\* the documents a find() returns, in the collection's order
SortedSeq(S) ==
    IF S = {} THEN <<>>
    ELSE LET m == CHOOSE x \in S : \A y \in S : x <= y
         IN <<m>> \o SortedSeq(S \ {m})

\* PaymentOrder.findOne({ shiftId })
FindByShift(sid) ==
    LET S == {o \in OrderIds : orders[o].exists /\ orders[o].shiftId = sid}
    IN IF S = {} THEN NoOrder ELSE CHOOSE o \in S : \A p \in S : o <= p

\* PaymentOrder.findOne({ orderId })
FindByOrderId(oid) ==
    IF oid \in OrderIds /\ orders[oid].exists THEN oid ELSE NoOrder

\* the end of a request: its response; of the locals only what the request
\* was about is kept in view
Respond(wr, code, ok, err, log) ==
    [IdleWorker EXCEPT !.op = wr.op, !.pc = "done", !.shiftId = wr.shiftId,
                       !.status = wr.status, !.oid = wr.oid,
                       !.newStatus = wr.newStatus,
                       !.resp = code, !.success = ok, !.error = err,
                       !.log = log]

\* the audit record of a delivery, as WebhookEvent.create writes it
NewEvent(sid) ==
    [shiftId |-> sid, processed |-> FALSE,
     processingError |-> None, orderId |-> NoOrder]

\* the list the sweep is iterating (expiredPending, expiringSoon, ...)
CurList(wr) ==
    CASE wr.rule = 1 -> wr.expiredPending
      [] wr.rule = 2 -> wr.expiringSoon
      [] wr.rule = 3 -> wr.abandonedOrders
      [] OTHER       -> wr.stuckPayments

\* the arguments of an updateOrderStatus call, and its first step
CallUpdate(wr, oid, newStatus, dep, set, note) ==
    [wr EXCEPT !.pc = "updRead", !.oid = oid, !.newStatus = newStatus,
               !.mDeposit = dep, !.mSettle = set, !.note = note]

RECURSIVE SweepNext(_)
\* monitorPayments after item wr.idx of the running rule: the next item of
\* the `for` loop, or the query of the next rule, or the summary
SweepNext(wr) ==
    LET i == wr.idx + 1
        L == CurList(wr)
    IN IF i > Len(L)
       THEN IF wr.rule = 4
            THEN Respond([wr EXCEPT !.oid = NoOrder, !.newStatus = None],
                         200, TRUE, None, "Payment monitor completed")
            ELSE [wr EXCEPT !.pc = "find", !.rule = wr.rule + 1, !.idx = 0,
                            !.oid = NoOrder]
       ELSE CASE wr.rule = 1 ->
                   CallUpdate([wr EXCEPT !.idx = i], L[i], "expired",
                              None, None, NoteQuoteExpired)
              [] wr.rule = 2 ->
                   [wr EXCEPT !.idx = i, !.pc = "remSave", !.oid = L[i]]
              [] wr.rule = 3 ->
                   CallUpdate([wr EXCEPT !.idx = i], L[i], "expired",
                              None, None, NoteAbandoned)
              [] OTHER ->
                   IF orders[L[i]].shiftId = NoShift
                   THEN SweepNext([wr EXCEPT !.idx = i])
                   ELSE [wr EXCEPT !.idx = i, !.pc = "pollRead", !.oid = L[i]]

\* the reminder line monitorPayments logs when it reaches an expiring order
Remind(wr) ==
    reminders' = IF wr.op = "sweep" /\ wr.pc = "remSave"
                 THEN [reminders EXCEPT ![wr.oid] = @ + 1]
                 ELSE reminders

\* updateOrderStatus (or pollShiftStatus) returned to its caller
Returned(w, wr) ==
    IF wr.op = "webhook"
    THEN /\ events' = [events EXCEPT ![wr.evt].processed = TRUE,
                                     ![wr.evt].orderId = wr.oid]
         /\ workers' = [workers EXCEPT ![w] =
                Respond(wr, 200, TRUE, None, "Processed")]
    ELSE /\ events' = events
         /\ workers' = [workers EXCEPT ![w] =
                IF wr.op = "poll" THEN Respond(wr, 200, TRUE, None, None)
                ELSE IF wr.op = "call" THEN Respond(wr, 0, TRUE, None, None)
                ELSE SweepNext(wr)]

\* the callers' catch with the monitor's rule 4 loop not catching
ThrownAbortingSweep(w, wr, err) ==
    /\ events' = events
    /\ workers' = [workers EXCEPT ![w] =
          IF wr.op = "webhook"
          THEN Respond(wr, 200, FALSE, "Processing error", "Error")
          ELSE IF wr.op = "call" THEN Respond(wr, 0, FALSE, err, None)
          ELSE IF wr.op = "poll"
               THEN IF err = "not found"
                    THEN Respond(wr, 404, FALSE, "Order not found",
                                 "Poll payment error")
                    ELSE Respond(wr, 500, FALSE, "Internal server error",
                                 "Poll payment error")
               ELSE Respond([wr EXCEPT !.oid = NoOrder, !.newStatus = None],
                            500, FALSE, err, "Monitor error")]

\* updateOrderStatus (or pollShiftStatus) threw err: the caller's catch
Thrown(w, wr, err) ==
    /\ events' = events
    /\ workers' = [workers EXCEPT ![w] =
          IF wr.op = "webhook"
          THEN Respond(wr, 200, FALSE, "Processing error", "Error")
          ELSE IF wr.op = "call" THEN Respond(wr, 0, FALSE, err, None)
          ELSE IF wr.op = "poll"
               THEN IF err = "not found"
                    THEN Respond(wr, 404, FALSE, "Order not found",
                                 "Poll payment error")
                    ELSE Respond(wr, 500, FALSE, "Internal server error",
                                 "Poll payment error")
               ELSE IF wr.rule = 4 THEN SweepNext(wr)
                    ELSE Respond([wr EXCEPT !.oid = NoOrder, !.newStatus = None],
                                 500, FALSE, err, "Monitor error")]

\* ---------------------------------------------------------- PaymentService
\* PaymentOrder.create storing the order as already detecting
NewOrderDetecting(sid) ==
    [exists |-> TRUE, shiftId |-> sid, status |-> "detecting",
     statusHistory |-> <<[status |-> "pending", timestamp |-> clock,
                          note |-> NoteCreated]>>,
     depositTxHash |-> None, settleTxHash |-> None,
     quoteExpiresAt |-> clock + QuoteTTL,
     expiryReminderSent |-> FALSE, completedAt |-> NoTime,
     createdAt |-> clock, updatedAt |-> clock]

\* the document PaymentOrder.create stores for a shift whose id is sid
NewOrder(sid) ==
    [exists |-> TRUE, shiftId |-> sid, status |-> "pending",
     statusHistory |-> <<[status |-> "pending", timestamp |-> clock,
                          note |-> NoteCreated]>>,
     depositTxHash |-> None, settleTxHash |-> None,
     quoteExpiresAt |-> clock + QuoteTTL,
     expiryReminderSent |-> FALSE, completedAt |-> NoTime,
     createdAt |-> clock, updatedAt |-> clock]

\* createPayment: the order as PaymentOrder.create stores it
CreatePayment ==
    /\ \E o \in OrderIds :
         /\ o <= MaxOrders
         /\ ~orders[o].exists
         /\ \A p \in OrderIds : p < o => orders[p].exists
         /\ orders' = [orders EXCEPT ![o] = NewOrder(ShiftOf(o))]
    /\ UNCHANGED <<events, workers, clock, hookCalls, reminders, nOps, nSweeps, nRaces, nTicks>>

\* createPayment when the shift the provider created has the empty string as
\* its id (z.string() accepts it, the schema does not require shiftId)
CreatePaymentEmptyShift ==
    /\ \E o \in OrderIds :
         /\ o <= MaxOrders
         /\ ~orders[o].exists
         /\ \A p \in OrderIds : p < o => orders[p].exists
         /\ orders' = [orders EXCEPT ![o] = NewOrder(NoShift)]
    /\ UNCHANGED <<events, workers, clock, hookCalls, reminders, nOps, nSweeps, nRaces, nTicks>>

\* createPayment for one order more than the MaxOrders that CreatePayment
\* stores
CreateAnotherPayment ==
    /\ \E o \in OrderIds :
         /\ o > MaxOrders
         /\ ~orders[o].exists
         /\ \A p \in OrderIds : p < o => orders[p].exists
         /\ orders' = [orders EXCEPT ![o] = NewOrder(ShiftOf(o))]
    /\ UNCHANGED <<events, workers, clock, hookCalls, reminders, nOps, nSweeps, nRaces, nTicks>>

\* a quote that outlives the day after which the monitor gives an order up
LongQuoteTTL == AbandonedAge + QuoteTTL

\* createPayment for a shift whose expiresAt lies more than a day ahead
CreatePaymentLongQuote ==
    /\ \E o \in OrderIds :
         /\ o <= MaxOrders
         /\ ~orders[o].exists
         /\ \A p \in OrderIds : p < o => orders[p].exists
         /\ orders' = [orders EXCEPT ![o] =
               [NewOrder(ShiftOf(o)) EXCEPT !.quoteExpiresAt = clock + LongQuoteTTL]]
    /\ UNCHANGED <<events, workers, clock, hookCalls, reminders, nOps, nSweeps, nRaces, nTicks>>

\* the terminal-state check with 'expired' left out of its list
GuardedWithoutExpired(st) == st \in {"completed", "refunded"}

\* the terminal-state check of updateOrderStatus
Guarded(st) == st \in GuardedStatuses

\* updateOrderStatus with the missing order treated as nothing to do
LoadIgnoringMissing(w, wr) ==
    LET o == FindByOrderId(wr.oid)
    IN IF o = NoOrder \/ Guarded(orders[o].status) THEN Returned(w, wr)
       ELSE /\ workers' = [workers EXCEPT ![w] =
                  [wr EXCEPT !.pc = "updSave",
                             !.docStatus = orders[o].status,
                             !.docDeposit = orders[o].depositTxHash,
                             !.docSettle = orders[o].settleTxHash,
                             !.at = clock]]
            /\ events' = events

\* updateOrderStatus(wr.oid, wr.newStatus, ...) up to order.save(): findOne,
\* the not-found throw, the terminal-state return.  Past the check the
\* document is changed in memory; `at` is the new Date() of those assignments.
Load(w, wr) ==
    LET o == FindByOrderId(wr.oid)
    IN IF o = NoOrder THEN Thrown(w, wr, "not found")
       ELSE IF Guarded(orders[o].status) THEN Returned(w, wr)
       ELSE /\ workers' = [workers EXCEPT ![w] =
                  [wr EXCEPT !.pc = "updSave",
                             !.docStatus = orders[o].status,
                             !.docDeposit = orders[o].depositTxHash,
                             !.docSettle = orders[o].settleTxHash,
                             !.at = clock]]
            /\ events' = events

\* the sweep's updateOrderStatus call (rules 1 and 3) up to order.save()
UpdRead(w) ==
    /\ workers[w].pc = "updRead"
    /\ Load(w, workers[w])
    /\ UNCHANGED <<orders, clock, hookCalls, reminders, nOps, nSweeps, nRaces, nTicks>>

\* a save that leaves completedAt out
SavedOrderWithoutCompletedAt(d, wr) ==
    [d EXCEPT
       !.status = IF wr.newStatus # wr.docStatus THEN wr.newStatus ELSE @,
       !.statusHistory = Append(@, [status |-> wr.newStatus,
                                    timestamp |-> wr.at, note |-> wr.note]),
       !.depositTxHash = IF wr.mDeposit # None /\ wr.mDeposit # wr.docDeposit
                         THEN wr.mDeposit ELSE @,
       !.settleTxHash = IF wr.mSettle # None /\ wr.mSettle # wr.docSettle
                        THEN wr.mSettle ELSE @,
       !.updatedAt = wr.at]

\* a save that writes both hashes as the call's metadata has them, absent
\* ones included
SavedOrderCopyingHashes(d, wr) ==
    [d EXCEPT
       !.status = IF wr.newStatus # wr.docStatus THEN wr.newStatus ELSE @,
       !.statusHistory = Append(@, [status |-> wr.newStatus,
                                    timestamp |-> wr.at, note |-> wr.note]),
       !.depositTxHash = wr.mDeposit,
       !.settleTxHash = wr.mSettle,
       !.completedAt = IF wr.newStatus = "completed" THEN wr.at ELSE @,
       !.updatedAt = wr.at]

\* a save that writes the history as the new entry alone
SavedOrderReplacingHistory(d, wr) ==
    [d EXCEPT
       !.status = IF wr.newStatus # wr.docStatus THEN wr.newStatus ELSE @,
       !.statusHistory = <<[status |-> wr.newStatus,
                            timestamp |-> wr.at, note |-> wr.note]>>,
       !.completedAt = IF wr.newStatus = "completed" THEN wr.at ELSE @,
       !.updatedAt = wr.at]

\* what order.save() writes for the document updateOrderStatus changed: the
\* paths whose value differs from the loaded one ($set), the pushed history
\* entry ($push) and updatedAt (timestamps: true); other paths keep what the
\* store holds
SavedOrder(d, wr) ==
    [d EXCEPT
       !.status = IF wr.newStatus # wr.docStatus THEN wr.newStatus ELSE @,
       !.statusHistory = Append(@, [status |-> wr.newStatus,
                                    timestamp |-> wr.at, note |-> wr.note]),
       !.depositTxHash = IF wr.mDeposit # None /\ wr.mDeposit # wr.docDeposit
                         THEN wr.mDeposit ELSE @,
       !.settleTxHash = IF wr.mSettle # None /\ wr.mSettle # wr.docSettle
                        THEN wr.mSettle ELSE @,
       !.completedAt = IF wr.newStatus = "completed" THEN wr.at ELSE @,
       !.updatedAt = wr.at]

\* order.save() writing updatedAt on every stored order
UpdSaveTouchingAll(w) ==
    LET wr == workers[w]
        o  == wr.oid
    IN /\ wr.pc = "updSave"
       /\ IF ~StatusValid(wr.newStatus)
          THEN /\ Thrown(w, wr, "validation")
               /\ UNCHANGED <<orders, hookCalls>>
          ELSE /\ orders' = [p \in OrderIds |->
                     IF p = o THEN SavedOrder(orders[o], wr)
                     ELSE IF orders[p].exists
                          THEN [orders[p] EXCEPT !.updatedAt = wr.at]
                          ELSE orders[p]]
               /\ hookCalls' = IF wr.newStatus = "completed"
                               THEN [hookCalls EXCEPT ![o] = @ + 1]
                               ELSE hookCalls
               /\ Returned(w, wr)
       /\ UNCHANGED <<clock, reminders, nOps, nSweeps, nRaces, nTicks>>

\* updateOrderStatus from order.save() on: validation, the write, the
\* completion hook, the return to the caller
UpdSave(w) ==
    LET wr == workers[w]
        o  == wr.oid
    IN /\ wr.pc = "updSave"
       /\ IF ~StatusValid(wr.newStatus)
          THEN /\ Thrown(w, wr, "validation")
               /\ UNCHANGED <<orders, hookCalls>>
          ELSE /\ orders' = [orders EXCEPT ![o] = SavedOrder(orders[o], wr)]
               /\ hookCalls' = IF wr.newStatus = "completed"
                               THEN [hookCalls EXCEPT ![o] = @ + 1]
                               ELSE hookCalls
               /\ Returned(w, wr)
       /\ UNCHANGED <<clock, reminders, nOps, nSweeps, nRaces, nTicks>>

\* updateOrderStatus(oid, st) called directly on the service, without
\* metadata
UpdateStart(w, oid, st) ==
    /\ Admit(w, FALSE)
    /\ workers' = [workers EXCEPT ![w] =
          CallUpdate([IdleWorker EXCEPT !.op = "call"], oid, st,
                     None, None, NoNote)]
    /\ UNCHANGED <<orders, events, clock, hookCalls, reminders, nTicks>>

\* order.save() of updateOrderStatus is rejected by the store: nothing is
\* written and the error goes to the caller
UpdSaveFails(w) ==
    LET wr == workers[w]
    IN /\ wr.pc = "updSave"
       /\ Thrown(w, wr, "storage")
       /\ UNCHANGED <<orders, clock, hookCalls, reminders, nOps, nSweeps, nRaces, nTicks>>

\* the hashes a webhook body or a provider answer may carry
Hashes == {<<None, None>>, <<"dh", "sh">>}

\* the status strings the provider's answer to GET /shifts/:id may carry
ProviderAnswers == ShiftStatuses \cup {"bogus"}

\* a schema that accepts every status string
ParsesAnything(st) == TRUE

\* ShiftStatusSchema.parse accepts the answer
Parses(st) == st \in ShiftStatuses

\* pollShiftStatus's statusMap[shiftStatus.status] || 'pending'
pollStatusMap(s) ==
    CASE s = "waiting"    -> "pending"
      [] s = "pending"    -> "detecting"
      [] s = "processing" -> "processing"
      [] s = "settling"   -> "settling"
      [] s = "settled"    -> "completed"
      [] s = "refund"     -> "failed"
      [] s = "refunded"   -> "refunded"
      [] s = "expired"    -> "expired"
      [] s = "constructor" -> "inherited"
      [] OTHER            -> "pending"

\* pollShiftStatus with a failed provider call recorded as status failed
PollReadFailingOrder(w) ==
    LET wr == workers[w]
        o  == FindByOrderId(wr.oid)
    IN /\ wr.pc = "pollRead"
       /\ IF o = NoOrder \/ orders[o].shiftId = NoShift
          THEN Thrown(w, wr, "not found")
          ELSE \/ Load(w, CallUpdate(wr, wr.oid, "failed", None, None,
                                     NotePoll("error")))
               \/ \E st \in ProviderAnswers, h \in Hashes :
                    IF ~Parses(st) THEN Thrown(w, wr, "provider")
                    ELSE Load(w, CallUpdate(wr, wr.oid, pollStatusMap(st),
                                            h[1], h[2], NotePoll(st)))
       /\ UNCHANGED <<orders, clock, hookCalls, reminders, nOps, nSweeps, nRaces, nTicks>>

\* pollShiftStatus up to order.save(): findOne and the throw for a missing
\* order or shiftId; getShiftStatus, which returns a parsed ShiftStatus or
\* throws; the mapping; updateOrderStatus up to its save.  Its two lookups are
\* one step: the first reads only orderId and shiftId, which never change.
PollRead(w) ==
    LET wr == workers[w]
        o  == FindByOrderId(wr.oid)
    IN /\ wr.pc = "pollRead"
       /\ IF o = NoOrder \/ orders[o].shiftId = NoShift
          THEN Thrown(w, wr, "not found")
          ELSE \/ Thrown(w, wr, "provider")
               \/ \E st \in ProviderAnswers, h \in Hashes :
                    IF ~Parses(st) THEN Thrown(w, wr, "provider")
                    ELSE Load(w, CallUpdate(wr, wr.oid, pollStatusMap(st),
                                            h[1], h[2], NotePoll(st)))
       /\ UNCHANGED <<orders, clock, hookCalls, reminders, nOps, nSweeps, nRaces, nTicks>>

\* POST /api/payments/[orderId]/poll: the request arrives
PollStart(w, oid) ==
    /\ Admit(w, FALSE)
    /\ workers' = [workers EXCEPT ![w] =
          [IdleWorker EXCEPT !.op = "poll", !.pc = "pollRead", !.oid = oid]]
    /\ UNCHANGED <<orders, events, clock, hookCalls, reminders, nTicks>>

\* --------------------------------------------------------- webhook handler
\* the handler without its WebhookEvent.create call
WebhookReceiveNoAudit(w, sid) ==
    /\ Admit(w, FALSE)
    /\ LET wr == [IdleWorker EXCEPT !.op = "webhook", !.shiftId = sid]
       IN /\ events' = events
          /\ workers' = [workers EXCEPT ![w] =
                IF sid = NoShift
                THEN Respond(wr, 400, FALSE, "Invalid payload",
                             "No shiftId in payload")
                ELSE [wr EXCEPT !.pc = "findOrder", !.evt = Len(events)]]
    /\ UNCHANGED <<orders, clock, hookCalls, reminders, nTicks>>

\* the handler with the audit record created before the id check
WebhookReceiveLogFirst(w, sid) ==
    /\ Admit(w, FALSE)
    /\ LET wr == [IdleWorker EXCEPT !.op = "webhook", !.shiftId = sid]
       IN /\ events' = Append(events, NewEvent(sid))
          /\ workers' = [workers EXCEPT ![w] =
                IF sid = NoShift
                THEN Respond(wr, 400, FALSE, "Invalid payload",
                             "No shiftId in payload")
                ELSE [wr EXCEPT !.pc = "findOrder", !.evt = Len(events) + 1]]
    /\ UNCHANGED <<orders, clock, hookCalls, reminders, nTicks>>

\* POST /api/webhooks/sideshift up to the order lookup: the body is read, a
\* body without id is answered 400, otherwise the audit record is created.
\* The rest of the body (status, hashes) enters the model where the handler
\* first uses it.
WebhookReceive(w, sid) ==
    /\ Admit(w, FALSE)
    /\ LET wr == [IdleWorker EXCEPT !.op = "webhook", !.shiftId = sid]
       IN IF sid = NoShift
          THEN /\ workers' = [workers EXCEPT ![w] =
                     Respond(wr, 400, FALSE, "Invalid payload",
                             "No shiftId in payload")]
               /\ events' = events
          ELSE /\ events' = Append(events, NewEvent(sid))
               /\ workers' = [workers EXCEPT ![w] =
                     [wr EXCEPT !.pc = "findOrder", !.evt = Len(events) + 1]]
    /\ UNCHANGED <<orders, clock, hookCalls, reminders, nTicks>>

\* the handler answering 404 for an unknown shift without touching the
\* audit record
WebhookFindOrderUnmarked(w, st, dh, sh) ==
    LET wr == [workers[w] EXCEPT !.status = st, !.depositHash = dh,
                                 !.settleHash = sh]
        o  == FindByShift(wr.shiftId)
        newStatus == statusMap(wr.status)
    IN /\ wr.pc = "findOrder"
       /\ IF o = NoOrder
          THEN /\ events' = events
               /\ workers' = [workers EXCEPT ![w] =
                     Respond(wr, 404, FALSE, "Order not found",
                             "Order not found")]
          ELSE IF newStatus = "undefined"
               THEN /\ events' = events
                    /\ workers' = [workers EXCEPT ![w] =
                          Respond(wr, 200, TRUE, None, "Unknown status")]
               ELSE Load(w, CallUpdate(wr, o, newStatus, wr.depositHash,
                                       wr.settleHash, NoteWebhook(wr.status)))
       /\ UNCHANGED <<orders, clock, hookCalls, reminders, nOps, nSweeps, nRaces, nTicks>>

\* POST from the order lookup to order.save(): an unknown shift marks the
\* audit record and is answered 404, a status the table does not map is
\* answered 200, otherwise updateOrderStatus runs up to its save.  The two
\* lookups are one step: the first reads only the order's orderId, which
\* never changes.
WebhookFindOrder(w, st, dh, sh) ==
    LET wr == [workers[w] EXCEPT !.status = st, !.depositHash = dh,
                                 !.settleHash = sh]
        o  == FindByShift(wr.shiftId)
        newStatus == statusMap(wr.status)
    IN /\ wr.pc = "findOrder"
       /\ IF o = NoOrder
          THEN /\ events' = [events EXCEPT
                     ![wr.evt].processed = TRUE,
                     ![wr.evt].processingError = "Order not found"]
               /\ workers' = [workers EXCEPT ![w] =
                     Respond(wr, 404, FALSE, "Order not found",
                             "Order not found")]
          ELSE IF newStatus = "undefined"
               THEN /\ events' = events
                    /\ workers' = [workers EXCEPT ![w] =
                          Respond(wr, 200, TRUE, None, "Unknown status")]
               ELSE Load(w, CallUpdate(wr, o, newStatus, wr.depositHash,
                                       wr.settleHash, NoteWebhook(wr.status)))
       /\ UNCHANGED <<orders, clock, hookCalls, reminders, nOps, nSweeps, nRaces, nTicks>>

\* ------------------------------------------------------------- the sweep
\* rule 1: pending, quote expired, no deposit hash
ExpiredPending(now) ==
    {o \in OrderIds : /\ orders[o].exists
                      /\ orders[o].status = "pending"
                      /\ orders[o].quoteExpiresAt < now
                      /\ orders[o].depositTxHash = None}

\* rule 2 without its expiryReminderSent condition
ExpiringSoonAgain(now) ==
    {o \in OrderIds : /\ orders[o].exists
                      /\ orders[o].status = "pending"
                      /\ orders[o].quoteExpiresAt < now + ReminderWindow
                      /\ orders[o].quoteExpiresAt > now
                      /\ orders[o].depositTxHash = None}

\* rule 2: pending, quote expiring within the reminder window, not reminded
ExpiringSoon(now) ==
    {o \in OrderIds : /\ orders[o].exists
                      /\ orders[o].status = "pending"
                      /\ orders[o].quoteExpiresAt < now + ReminderWindow
                      /\ orders[o].quoteExpiresAt > now
                      /\ orders[o].expiryReminderSent # TRUE
                      /\ orders[o].depositTxHash = None}

\* rule 3 selecting nothing
AbandonedOrdersNone(now) == {}

\* rule 3: pending, created over 24 hours ago, no deposit hash
AbandonedOrders(now) ==
    {o \in OrderIds : /\ orders[o].exists
                      /\ orders[o].status = "pending"
                      /\ orders[o].createdAt < now - AbandonedAge
                      /\ orders[o].depositTxHash = None}

\* rule 4 with 'settling' left out of its status list
StuckPaymentsWithoutSettling(now) ==
    {o \in OrderIds : /\ orders[o].exists
                      /\ orders[o].status \in {"detecting", "processing"}
                      /\ orders[o].updatedAt < now - StuckAge}

\* rule 4 without its updatedAt condition
StuckPaymentsAnyAge(now) ==
    {o \in OrderIds : /\ orders[o].exists
                      /\ orders[o].status \in {"detecting", "processing", "settling"}}

\* rule 4: in flight and not updated for over an hour
StuckPayments(now) ==
    {o \in OrderIds : /\ orders[o].exists
                      /\ orders[o].status \in {"detecting", "processing", "settling"}
                      /\ orders[o].updatedAt < now - StuckAge}

\* monitorPayments starts: now is taken and the expired quotes are queried
SweepStart(w) ==
    /\ Admit(w, TRUE)
    /\ workers' = [workers EXCEPT ![w] =
          SweepNext([IdleWorker EXCEPT !.op = "sweep", !.now = clock, !.rule = 1,
                        !.expiredPending = SortedSeq(ExpiredPending(clock))])]
    /\ UNCHANGED <<orders, events, clock, hookCalls, reminders, nTicks>>

\* the environment's CRON_SECRET: not set, or set
Unset == "unset"
CronSecrets == {Unset, "s3cret"}

\* the authorization header of a request: absent (headers.get gives null),
\* or one of three values
AuthHeaders == {None, "Bearer s3cret", "Bearer undefined", "Bearer guess"}

\* the template string `Bearer ${process.env.CRON_SECRET}`
BearerOf(secret) ==
    IF secret = Unset THEN "Bearer undefined" ELSE "Bearer " \o secret

\* the comparison of the GET handler: authHeader !== `Bearer ${...}`
Authorized(secret, header) == header = BearerOf(secret)

\* GET of the cron route: the authorization check, then monitorPayments up
\* to its first query, or the 401 response
CronGet(w, secret, header) ==
    IF Authorized(secret, header)
    THEN /\ Admit(w, TRUE)
         /\ nSweeps = 0
         /\ workers' = [workers EXCEPT ![w] =
               SweepNext([IdleWorker EXCEPT !.op = "sweep", !.now = clock,
                             !.rule = 1, !.secret = secret, !.auth = header,
                             !.atStart = orders,
                             !.expiredPending = SortedSeq(ExpiredPending(clock))])]
         /\ UNCHANGED <<orders, events, clock, hookCalls, reminders, nTicks>>
    ELSE /\ Admit(w, FALSE)
         /\ workers' = [workers EXCEPT ![w] =
               [Respond([IdleWorker EXCEPT !.op = "cron"], 401, FALSE,
                        "Unauthorized", None)
                   EXCEPT !.secret = secret, !.auth = header]]
         /\ UNCHANGED <<orders, events, clock, hookCalls, reminders, nTicks>>

\* the scheduler's next request, right after a run that returned its
\* summary: an authorized GET at the same time
SweepRepeat(w) ==
    /\ Quiet
    /\ workers[w].op = "sweep" /\ workers[w].resp = 200
    /\ nSweeps = 1
    /\ nSweeps' = 2
    /\ workers' = [workers EXCEPT ![w] =
          SweepNext([IdleWorker EXCEPT !.op = "sweep", !.now = clock,
                        !.rule = 1, !.secret = "s3cret",
                        !.auth = BearerOf("s3cret"),
                        !.atStart = orders,
                        !.expiredPending = SortedSeq(ExpiredPending(clock))])]
    /\ UNCHANGED <<orders, events, clock, hookCalls, reminders, nOps, nRaces, nTicks>>

\* the query of rule 2, 3 or 4, and the first item of its loop
SweepFind(w) ==
    LET wr == workers[w]
    IN /\ wr.pc = "find"
       /\ workers' = [workers EXCEPT ![w] = SweepNext(
             CASE wr.rule = 2 ->
                    [wr EXCEPT !.expiringSoon = SortedSeq(ExpiringSoon(wr.now))]
               [] wr.rule = 3 ->
                    [wr EXCEPT !.abandonedOrders = SortedSeq(AbandonedOrders(wr.now))]
               [] OTHER ->
                    [wr EXCEPT !.stuckPayments = SortedSeq(StuckPayments(wr.now))])]
       /\ Remind(workers'[w])
       /\ UNCHANGED <<orders, events, clock, hookCalls, nOps, nSweeps, nRaces, nTicks>>

\* rule 2's loop body from order.save() on: the found document, with
\* expiryReminderSent set, is saved
RemSave(w) ==
    LET wr == workers[w]
    IN /\ wr.pc = "remSave"
       /\ orders' = [orders EXCEPT ![wr.oid].expiryReminderSent = TRUE,
                                   ![wr.oid].updatedAt = clock]
       /\ workers' = [workers EXCEPT ![w] = SweepNext(wr)]
       /\ Remind(workers'[w])
       /\ UNCHANGED <<events, clock, hookCalls, nOps, nSweeps, nRaces, nTicks>>

\* time passes between requests
Tick(d) ==
    /\ Quiet
    /\ nTicks < MaxTicks
    /\ nTicks' = nTicks + 1
    /\ clock' = clock + d
    /\ UNCHANGED <<orders, events, workers, hookCalls, reminders, nOps, nSweeps, nRaces>>

\* ------------------------------------------------------------ specification
StrayOrder == MaxOrders + 1

Next ==
    \/ CreatePayment
    \/ \E d \in TickSteps : Tick(d)
    \/ \E w \in Workers, sid \in OrderIds \cup {StrayShift, NoShift} :
          WebhookReceive(w, sid)
    \/ \E w \in Workers, st \in WebhookStatuses, h \in Hashes :
          WebhookFindOrder(w, st, h[1], h[2])
    \/ \E w \in Workers, oid \in OrderIds \cup {StrayOrder} : PollStart(w, oid)
    \/ \E w \in Workers : PollRead(w)
    \/ \E w \in Workers : UpdRead(w)
    \/ \E w \in Workers : UpdSave(w)
    \/ \E w \in Workers : SweepStart(w)
    \/ \E w \in Workers : SweepFind(w)
    \/ \E w \in Workers : RemSave(w)

Spec == Init /\ [][Next]_vars

\* requests served one at a time: a request arrives only when none is being
\* served
SeqNext ==
    \/ CreatePayment
    \/ \E d \in TickSteps : Tick(d)
    \/ \E w \in Workers, sid \in OrderIds \cup {StrayShift, NoShift} :
          Quiet /\ WebhookReceive(w, sid)
    \/ \E w \in Workers, st \in WebhookStatuses, h \in Hashes :
          WebhookFindOrder(w, st, h[1], h[2])
    \/ \E w \in Workers, oid \in OrderIds \cup {StrayOrder} :
          Quiet /\ PollStart(w, oid)
    \/ \E w \in Workers : PollRead(w)
    \/ \E w \in Workers : UpdRead(w)
    \/ \E w \in Workers : UpdSave(w)
    \/ \E w \in Workers : Quiet /\ SweepStart(w)
    \/ \E w \in Workers : SweepFind(w)
    \/ \E w \in Workers : RemSave(w)

SeqSpec == Init /\ [][SeqNext]_vars

\* a run of the monitor that starts whenever no request is being served,
\* again and again
SweepAgain(w) ==
    /\ Quiet
    /\ \A v \in Workers : w <= v
    /\ workers' = [workers EXCEPT ![w] =
          SweepNext([IdleWorker EXCEPT !.op = "sweep", !.now = clock, !.rule = 1,
                        !.expiredPending = SortedSeq(ExpiredPending(clock))])]
    /\ UNCHANGED <<orders, events, clock, hookCalls, reminders, nOps, nSweeps, nRaces, nTicks>>

\* a time by which everything stored is older than every threshold of the
\* monitor
LongAfter == AbandonedAge + AbandonedAge

\* a document seen from LongAfter: the code compares its dates with `now`
\* only, so all that is kept of them is that they lie far back
Aged(d) ==
    [d EXCEPT !.quoteExpiresAt = 0, !.createdAt = 0, !.updatedAt = 0,
              !.completedAt = IF @ = NoTime THEN NoTime ELSE 0,
              !.statusHistory = [i \in DOMAIN @ |-> [@[i] EXCEPT !.timestamp = 0]]]

\* a long time passes between requests: longer than every threshold
Elapse ==
    /\ Quiet
    /\ clock' = LongAfter
    /\ orders' = [o \in OrderIds |->
          IF orders[o].exists THEN Aged(orders[o]) ELSE orders[o]]
    /\ UNCHANGED <<events, workers, hookCalls, reminders, nOps, nSweeps, nRaces, nTicks>>

\* the provider answers a poll with a status that maps to a terminal status
TerminalReport ==
    /\ \E w \in Workers : PollRead(w)
    /\ \E w \in Workers :
          /\ workers[w].pc = "pollRead"
          /\ workers'[w].pc = "updSave"
          /\ workers'[w].newStatus \in TerminalStatuses

\* the provider stops answering polls of an order with statuses that are not
\* terminal once the order's statusHistory has MaxEntries entries
Settles(w) ==
    LET wr == workers[w]
    IN ( /\ FindByOrderId(wr.oid) # NoOrder
         /\ Len(orders[wr.oid].statusHistory) >= MaxEntries
         /\ workers'[w].pc = "updSave" )
       => workers'[w].newStatus \in TerminalStatuses

\* requests one at a time, the monitor run again and again for as long as
\* time goes on
LiveNext ==
    \/ CreatePayment
    \/ \E d \in TickSteps : Tick(d)
    \/ Elapse
    \/ \E w \in Workers, sid \in OrderIds \cup {StrayShift, NoShift} :
          Quiet /\ WebhookReceive(w, sid)
    \/ \E w \in Workers, st \in WebhookStatuses, h \in Hashes :
          WebhookFindOrder(w, st, h[1], h[2])
    \/ \E w \in Workers, oid \in OrderIds \cup {StrayOrder} :
          Quiet /\ PollStart(w, oid)
    \/ \E w \in Workers : PollRead(w) /\ Settles(w)
    \/ \E w \in Workers : UpdRead(w)
    \/ \E w \in Workers : UpdSave(w)
    \/ \E w \in Workers : SweepAgain(w)
    \/ \E w \in Workers : SweepFind(w)
    \/ \E w \in Workers : RemSave(w)

\* every request runs to its end, the monitor keeps being run, time keeps
\* passing, and the provider keeps answering with a terminal status in the end
LiveSpec ==
    /\ Init
    /\ [][LiveNext]_vars
    /\ WF_vars(\E w \in Workers, st \in WebhookStatuses, h \in Hashes :
                  WebhookFindOrder(w, st, h[1], h[2]))
    /\ WF_vars(\E w \in Workers : PollRead(w))
    /\ WF_vars(\E w \in Workers : UpdRead(w))
    /\ WF_vars(\E w \in Workers : UpdSave(w))
    /\ WF_vars(\E w \in Workers : SweepFind(w))
    /\ WF_vars(\E w \in Workers : RemSave(w))
    /\ WF_vars(\E w \in Workers : SweepAgain(w))
    /\ SF_vars(Elapse)
    /\ SF_vars(TerminalReport)

\* the monitor over a store of up to two orders, one request at a time, with
\* quotes short and long and a store that may reject a save
MonitorNext ==
    \/ CreatePayment
    \/ CreatePaymentLongQuote
    \/ CreateAnotherPayment
    \/ \E d \in TickSteps : Tick(d)
    \/ \E w \in Workers, sid \in OrderIds : Quiet /\ WebhookReceive(w, sid)
    \/ \E w \in Workers, st \in ShiftStatuses :
          WebhookFindOrder(w, st, None, None)
    \/ \E w \in Workers : PollRead(w)
    \/ \E w \in Workers : UpdRead(w)
    \/ \E w \in Workers : UpdSave(w)
    \/ \E w \in Workers : UpdSaveFails(w)
    \/ \E w \in Workers : Quiet /\ SweepStart(w)
    \/ \E w \in Workers : SweepFind(w)
    \/ \E w \in Workers : RemSave(w)

MonitorSpec == Init /\ [][MonitorNext]_vars

\* the service called directly, one call at a time: updateOrderStatus and
\* pollShiftStatus (through its route) on orders with and without a shiftId
\* --------------------------------------------------- checkout and quotes
\* an amount argument of requestQuote: left out, the empty string, a number
\* as toFixed(6) writes it
Amounts == {None, "", "25.000000"}

\* JavaScript's truthiness of an optional string
Truthy(a) == a # None /\ a # ""

\* the end of a checkout or quote request: the response, and with it what
\* the request was called with and what it had sent to the provider
Answer(wr, code, ok, err, log) ==
    [Respond(wr, code, ok, err, log) EXCEPT
        !.depositAmount = wr.depositAmount, !.settleAmount = wr.settleAmount,
        !.quote = wr.quote, !.posted = wr.posted]

\* POST /api/payments/create storing the order before it asks for a quote
CreateReceiveStoringFirst(w, valid, configured) ==
    /\ Admit(w, FALSE)
    /\ LET wr == [IdleWorker EXCEPT !.op = "create"]
           S  == {o \in OrderIds : ~orders[o].exists}
       IN IF ~valid
          THEN /\ workers' = [workers EXCEPT ![w] =
                     Answer(wr, 400, FALSE, "Invalid request data",
                            "Create payment error")]
               /\ orders' = orders
          ELSE /\ S # {}
               /\ orders' = [orders EXCEPT ![CHOOSE o \in S : \A p \in S : o <= p] =
                                NewOrder(NoShift)]
               /\ workers' = [workers EXCEPT ![w] =
                     [wr EXCEPT !.pc = "quote", !.settleAmount = "25.000000"]]
    /\ UNCHANGED <<events, clock, hookCalls, reminders, nTicks>>

\* POST /api/payments/create up to createPayment's call of requestQuote:
\* the body is validated, SETTLEMENT_ADDRESS is read
CreateReceive(w, valid, configured) ==
    /\ Admit(w, FALSE)
    /\ LET wr == [IdleWorker EXCEPT !.op = "create"]
       IN workers' = [workers EXCEPT ![w] =
             IF ~valid
             THEN Answer(wr, 400, FALSE, "Invalid request data",
                         "Create payment error")
             ELSE IF ~configured
             THEN Answer(wr, 500, FALSE, "Internal server error",
                         "Create payment error")
             ELSE [wr EXCEPT !.pc = "quote", !.settleAmount = "25.000000"]]
    /\ UNCHANGED <<orders, events, clock, hookCalls, reminders, nTicks>>

\* requestQuote called directly on the client with the two amounts
QuoteStart(w, dep, set) ==
    /\ Admit(w, FALSE)
    /\ workers' = [workers EXCEPT ![w] =
          [IdleWorker EXCEPT !.op = "quote", !.pc = "quote",
                             !.depositAmount = dep, !.settleAmount = set]]
    /\ UNCHANGED <<orders, events, clock, hookCalls, reminders, nTicks>>

\* an error leaves createPayment: the route's catch; or leaves requestQuote
\* called directly: it goes to the caller
Failed(wr, err) ==
    IF wr.op = "quote" THEN Answer(wr, 0, FALSE, err, None)
    ELSE IF err = "SideShiftAPIError"
         THEN Answer(wr, 502, FALSE, "Payment provider error",
                     "Create payment error")
         ELSE Answer(wr, 500, FALSE, "Internal server error",
                     "Create payment error")

\* requestQuote: the two checks on the amounts, then the request to the
\* provider, which answers with a quote (ok) or fails
RequestQuote(w, ok) ==
    LET wr == workers[w]
    IN /\ wr.pc = "quote"
       /\ workers' = [workers EXCEPT ![w] =
             IF Truthy(wr.depositAmount) /\ Truthy(wr.settleAmount)
             THEN Failed(wr, "not both")
             ELSE IF ~Truthy(wr.depositAmount) /\ ~Truthy(wr.settleAmount)
             THEN Failed(wr, "must specify")
             ELSE LET sent == [wr EXCEPT !.posted = @ + 1]
                  IN IF ~ok THEN Failed(sent, "SideShiftAPIError")
                     ELSE IF wr.op = "quote"
                     THEN Answer([sent EXCEPT !.quote = "quote"], 0, TRUE,
                                 None, None)
                     ELSE [sent EXCEPT !.pc = "shift", !.quote = "quote"]]
       /\ UNCHANGED <<orders, events, clock, hookCalls, reminders, nOps, nSweeps, nRaces, nTicks>>

\* createPayment's call of createFixedShift: the provider creates the shift
\* (ok) or fails
CreateFixedShift(w, ok) ==
    LET wr   == workers[w]
        sent == [wr EXCEPT !.posted = @ + 1]
    IN /\ wr.pc = "shift"
       /\ workers' = [workers EXCEPT ![w] =
             IF ok THEN [sent EXCEPT !.pc = "store"]
             ELSE Failed(sent, "SideShiftAPIError")]
       /\ UNCHANGED <<orders, events, clock, hookCalls, reminders, nOps, nSweeps, nRaces, nTicks>>

\* createPayment from PaymentOrder.create on: the order is stored (stored)
\* or the store rejects it, and the route answers
StoreOrder(w, stored) ==
    LET wr == workers[w]
        S  == {o \in OrderIds : ~orders[o].exists}
        o  == CHOOSE x \in S : \A y \in S : x <= y
    IN /\ wr.pc = "store"
       /\ S # {}
       /\ IF stored
          THEN /\ orders' = [orders EXCEPT ![o] = NewOrder(ShiftOf(o))]
               /\ workers' = [workers EXCEPT ![w] =
                     Answer([wr EXCEPT !.oid = o, !.shiftId = ShiftOf(o)],
                            200, TRUE, None, None)]
          ELSE /\ orders' = orders
               /\ workers' = [workers EXCEPT ![w] = Failed(wr, "storage")]
       /\ UNCHANGED <<events, clock, hookCalls, reminders, nOps, nSweeps, nRaces, nTicks>>

\* checkout requests and direct quote requests, at most two at a time
CreateNext ==
    \/ \E d \in TickSteps : Tick(d)
    \/ \E w \in Workers, valid, configured \in BOOLEAN :
          CreateReceive(w, valid, configured)
    \/ \E w \in Workers, dep, set \in Amounts : QuoteStart(w, dep, set)
    \/ \E w \in Workers, ok \in BOOLEAN : RequestQuote(w, ok)
    \/ \E w \in Workers, ok \in BOOLEAN : CreateFixedShift(w, ok)
    \/ \E w \in Workers, stored \in BOOLEAN : StoreOrder(w, stored)

CreateSpec == Init /\ [][CreateNext]_vars

\* the scheduler's runs of the monitor, one request at a time: orders are
\* created, time passes and webhooks arrive, then the cron route is called,
\* and called again
SweepNextStep ==
    \/ nSweeps = 0 /\ CreatePayment
    \/ nSweeps = 0 /\ CreatePaymentLongQuote
    \/ nSweeps = 0 /\ CreateAnotherPayment
    \/ \E d \in TickSteps : nSweeps = 0 /\ Tick(d)
    \/ \E w \in Workers, sid \in OrderIds :
          nSweeps = 0 /\ Quiet /\ WebhookReceive(w, sid)
    \/ \E w \in Workers, st \in WebhookStatuses, h \in Hashes :
          WebhookFindOrder(w, st, h[1], h[2])
    \/ \E w \in Workers, secret \in CronSecrets, header \in AuthHeaders :
          Quiet /\ CronGet(w, secret, header)
    \/ \E w \in Workers : SweepRepeat(w)
    \/ \E w \in Workers : SweepFind(w)
    \/ \E w \in Workers : RemSave(w)
    \/ \E w \in Workers : PollRead(w)
    \/ \E w \in Workers : UpdRead(w)
    \/ \E w \in Workers : UpdSave(w)

SweepSpec == Init /\ [][SweepNextStep]_vars

CallNext ==
    \/ CreatePayment
    \/ CreatePaymentEmptyShift
    \/ CreateAnotherPayment
    \/ \E d \in TickSteps : Tick(d)
    \/ \E w \in Workers, oid \in OrderIds \cup {StrayOrder},
          st \in PaymentStatuses : Quiet /\ UpdateStart(w, oid, st)
    \/ \E w \in Workers, oid \in OrderIds \cup {StrayOrder} :
          Quiet /\ PollStart(w, oid)
    \/ \E w \in Workers : PollRead(w)
    \/ \E w \in Workers : UpdRead(w)
    \/ \E w \in Workers : UpdSave(w)
    \/ \E w \in Workers : UpdSaveFails(w)

CallSpec == Init /\ [][CallNext]_vars

\* ------------------------------------------------------------------ claims
Range(f) == {f[i] : i \in DOMAIN f}

Last(h) == h[Len(h)]

\* the statusHistory entries of order o that carry status st
Entries(o, st) ==
    {i \in DOMAIN orders[o].statusHistory : orders[o].statusHistory[i].status = st}

\* this step is a step of the request served in slot w
StepOf(w) == workers'[w] # workers[w]

\* this step is the arrival of a request of kind op, served in slot w
Arrival(w, op) ==
    /\ Free(w)
    /\ \A v \in Workers : v < w => ~Free(v)
    /\ nOps + nSweeps # nOps' + nSweeps'
    /\ workers'[w].op = op

\* this step is the order.save() of the updateOrderStatus call of slot w, and
\* the save succeeds
Saves(w) ==
    /\ workers[w].pc = "updSave"
    /\ StepOf(w)
    /\ StatusValid(workers[w].newStatus)

\* the lifecycle rank of a status
Rank(st) ==
    CASE st = "pending"    -> 0
      [] st = "detecting"  -> 1
      [] st = "processing" -> 2
      [] st = "settling"   -> 3
      [] OTHER             -> 4

\* C1: once an order's status is completed, expired, failed or refunded, no
\* step changes the status or assigns completedAt again.
C1_TerminalIsFinal ==
    [][\A o \in OrderIds :
          orders[o].status \in TerminalStatuses =>
             /\ orders'[o].status = orders[o].status
             /\ orders'[o].completedAt = orders[o].completedAt]_vars

\* C2: when the only two requests ever served are two overlapping
\* updateOrderStatus calls on the same (fresh, non-terminal) order, one with
\* processing and one with completed, then once both have returned the order
\* is completed, its statusHistory has the processing entry before the
\* completed entry, and it has exactly one completed entry.
C2_RaceConverges ==
    \A w, v \in Workers, o \in OrderIds :
       ( /\ nOps = 2 /\ nSweeps = 0
         /\ workers[w].pc = "done" /\ workers[v].pc = "done"
         /\ workers[w].oid = o /\ workers[v].oid = o
         /\ workers[w].newStatus = "processing"
         /\ workers[v].newStatus = "completed" )
       => /\ orders[o].status = "completed"
          /\ Cardinality(Entries(o, "completed")) = 1
          /\ \E i \in Entries(o, "processing") :
                \A j \in Entries(o, "completed") : i < j

\* C3: for every order, handleOrderCompletion has been called at most once and
\* completedAt has been written at most once (every write of completedAt
\* comes with one completed statusHistory entry).
C3_CompletionOnce ==
    \A o \in OrderIds :
       /\ hookCalls[o] <= 1
       /\ Cardinality(Entries(o, "completed")) <= 1

\* C4: no update is lost: every order.save() of updateOrderStatus keeps the
\* entries statusHistory had, appends the call's own entry, and leaves the
\* stored status equal to the status of that last entry.
C4_NoLostUpdate ==
    [][\A w \in Workers :
          Saves(w) =>
             LET o == workers[w].oid
                 h == orders[o].statusHistory
                 g == orders'[o].statusHistory
             IN /\ Len(g) = Len(h) + 1
                /\ SubSeq(g, 1, Len(h)) = h
                /\ Last(g).status = workers[w].newStatus
                /\ Last(g).note = workers[w].note
                /\ orders'[o].status = Last(g).status]_vars

\* C5: applying the (swap id, external status) pair that was applied last
\* once more leaves the order as it is: status, statusHistory, hashes and
\* completedAt.
C5_Idempotent ==
    [][\A w \in Workers :
          ( /\ Saves(w)
            /\ Last(orders[workers[w].oid].statusHistory).status = workers[w].newStatus
            /\ Last(orders[workers[w].oid].statusHistory).note = workers[w].note )
          => LET o == workers[w].oid
             IN /\ orders'[o].status = orders[o].status
                /\ orders'[o].statusHistory = orders[o].statusHistory
                /\ orders'[o].depositTxHash = orders[o].depositTxHash
                /\ orders'[o].settleTxHash = orders[o].settleTxHash
                /\ orders'[o].completedAt = orders[o].completedAt]_vars

\* C6: no step of a webhook delivery whose status is outside the eight-entry
\* table, and whose shift matches an order, changes any order or calls the
\* completion hook, and the delivery is answered without an error: HTTP 200
\* with success true and no error field.
C6_UnknownStatusIgnored ==
    [][\A w \in Workers :
          ( /\ workers[w].op = "webhook"
            /\ StepOf(w)
            /\ workers[w].pc \in {"findOrder", "updSave"}
            /\ FindByShift(workers[w].shiftId) # NoOrder
            /\ workers'[w].status \notin ShiftStatuses )
          => /\ orders' = orders
             /\ hookCalls' = hookCalls
             /\ workers'[w].pc = "done" =>
                   /\ workers'[w].resp = 200
                   /\ workers'[w].success = TRUE
                   /\ workers'[w].error = None]_vars

\* C7 (requests served one at a time): the sweep's first query selects
\* exactly the orders that are pending, have no deposit hash and whose
\* quoteExpiresAt lies before now; each of them is expired by the sweep, with
\* the note "Quote expired without deposit" as its last statusHistory entry;
\* and an expired order is never changed again, whatever is delivered for it.
C7_ExpiredStaysExpired ==
    /\ [][\A w \in Workers :
             Arrival(w, "sweep") =>
                Range(workers'[w].expiredPending) =
                   {o \in OrderIds : /\ orders[o].exists
                                     /\ orders[o].status = "pending"
                                     /\ orders[o].depositTxHash = None
                                     /\ orders[o].quoteExpiresAt < clock}]_vars
    /\ [](\A w \in Workers :
             (workers[w].op = "sweep" /\ workers[w].pc # "done") =>
                \A j \in DOMAIN workers[w].expiredPending :
                   (workers[w].rule > 1 \/ j < workers[w].idx) =>
                      LET o == workers[w].expiredPending[j]
                      IN /\ orders[o].status = "expired"
                         /\ Last(orders[o].statusHistory).status = "expired"
                         /\ Last(orders[o].statusHistory).note = NoteQuoteExpired)
    /\ [][\A o \in OrderIds :
             orders[o].status = "expired" => orders'[o] = orders[o]]_vars

\* an order the sweep expired for its quote, and a settled webhook for it that
\* was answered afterwards
C7_Witness ==
    \E w \in Workers, o \in OrderIds :
       /\ orders[o].status = "expired"
       /\ Last(orders[o].statusHistory).note = NoteQuoteExpired
       /\ workers[w].op = "webhook" /\ workers[w].pc = "done"
       /\ workers[w].status = "settled" /\ workers[w].oid = o
       /\ workers[w].log = "Processed"

\* C8 (requests served one at a time): the sweep's fourth query selects every
\* settling order whose updatedAt is more than an hour before now, and the
\* sweep polls it; the save of a sweep poll that reported settled makes the
\* order completed and sets completedAt, which was not set before; a
\* completed order is never changed again, so its statusHistory keeps exactly
\* one completed entry.
C8_StuckSettlingCompletes ==
    /\ [][\A w \in Workers :
             (workers[w].pc = "find" /\ workers[w].rule = 4 /\ StepOf(w)) =>
                \A o \in OrderIds :
                   ( /\ orders[o].exists
                     /\ orders[o].status = "settling"
                     /\ orders[o].updatedAt + StuckAge < workers[w].now )
                   => /\ o \in Range(workers'[w].stuckPayments)
                      /\ workers'[w].pc = "pollRead"]_vars
    /\ [][\A w \in Workers :
             ( /\ Saves(w)
               /\ workers[w].op = "sweep" /\ workers[w].rule = 4
               /\ workers[w].newStatus = "completed" )
             => LET o == workers[w].oid
                IN /\ orders[o].completedAt = NoTime
                   /\ orders'[o].status = "completed"
                   /\ orders'[o].completedAt # NoTime]_vars
    /\ [](\A o \in OrderIds :
             /\ Cardinality(Entries(o, "completed")) <= 1
             /\ orders[o].status = "completed" =>
                   Cardinality(Entries(o, "completed")) = 1)
    /\ [][\A o \in OrderIds :
             orders[o].status = "completed" => orders'[o] = orders[o]]_vars

\* a settling order that a sweep's poll completed, seen while a later sweep
\* is running
C8_Witness ==
    \E w \in Workers, o \in OrderIds :
       /\ orders[o].status = "completed"
       /\ orders[o].completedAt # NoTime
       /\ Len(orders[o].statusHistory) = 3
       /\ orders[o].statusHistory[2].status = "settling"
       /\ Last(orders[o].statusHistory).note = NotePoll("settled")
       /\ nOps = 1 /\ nSweeps = 2
       /\ workers[w].op = "sweep" /\ workers[w].pc = "find"

StatusTable ==
    [waiting |-> "pending", pending |-> "detecting",
     processing |-> "processing", settling |-> "settling",
     settled |-> "completed", refund |-> "failed",
     refunded |-> "refunded", expired |-> "expired"]

\* C11: an order that exists reaches a terminal status.
C11_EventuallyTerminal ==
    \A o \in OrderIds :
       [](orders[o].exists => <>(orders[o].status \in TerminalStatuses))

\* C12 (requests served one at a time): a webhook that carries one of the
\* eight provider statuses for an order that is not terminal goes on to save
\* the order, and that save sets the status to the table's value and appends
\* exactly one statusHistory entry, which carries that status.
C12_TableApplied ==
    /\ [][\A w \in Workers :
             LET o == FindByShift(workers[w].shiftId)
             IN ( /\ workers[w].op = "webhook" /\ workers[w].pc = "findOrder"
                  /\ StepOf(w)
                  /\ o # NoOrder
                  /\ orders[o].status \notin TerminalStatuses
                  /\ workers'[w].status \in ShiftStatuses )
                => /\ workers'[w].pc = "updSave"
                   /\ workers'[w].oid = o
                   /\ workers'[w].newStatus = StatusTable[workers'[w].status]]_vars
    /\ [][\A w \in Workers :
             LET o == workers[w].oid
             IN ( /\ workers[w].op = "webhook" /\ workers[w].pc = "updSave"
                  /\ StepOf(w)
                  /\ workers[w].status \in ShiftStatuses
                  /\ orders[o].status \notin TerminalStatuses )
                => /\ orders'[o].status = StatusTable[workers[w].status]
                   /\ Len(orders'[o].statusHistory) =
                         Len(orders[o].statusHistory) + 1
                   /\ SubSeq(orders'[o].statusHistory, 1,
                             Len(orders[o].statusHistory)) =
                         orders[o].statusHistory
                   /\ Last(orders'[o].statusHistory).status =
                         StatusTable[workers[w].status]]_vars

\* a refund webhook was answered and left the order failed, with one entry
\* more than the order was created with
C12_Witness ==
    \E w \in Workers, o \in OrderIds :
       /\ workers[w].op = "webhook" /\ workers[w].pc = "done"
       /\ workers[w].status = "refund" /\ workers[w].oid = o
       /\ orders[o].status = "failed"
       /\ Len(orders[o].statusHistory) = 2
       /\ Last(orders[o].statusHistory).status = "failed"
       /\ nOps = 1

C14_ErrorRecorded ==
    [][\A w \in Workers :
          ( /\ workers[w].op = "webhook" /\ workers[w].pc = "updSave"
            /\ StepOf(w)
            /\ ~StatusValid(workers[w].newStatus) )
          => /\ events'[workers[w].evt].processingError # None
             /\ workers'[w].resp = 200
             /\ orders' = orders]_vars

\* C15: every webhook delivery that has a swap id is answered with HTTP 200.
C15_AlwaysAcknowledged ==
    \A w \in Workers :
       ( /\ workers[w].op = "webhook" /\ workers[w].pc = "done"
         /\ workers[w].shiftId # NoShift )
       => workers[w].resp = 200

\* C16: a webhook delivery that has a swap id but no status is answered with
\* HTTP 400, and no step of it adds a WebhookEvent record or changes an
\* order.
C16_MissingStatusRejected ==
    /\ [](\A w \in Workers :
             ( /\ workers[w].op = "webhook" /\ workers[w].pc = "done"
               /\ workers[w].shiftId # NoShift
               /\ workers[w].status = None )
             => workers[w].resp = 400)
    /\ [][\A w \in Workers :
             ( /\ workers[w].op = "webhook" /\ workers[w].pc = "findOrder"
               /\ StepOf(w)
               /\ workers'[w].status = None )
             => /\ workers[w].evt = 0
                /\ orders' = orders]_vars

\* C17: the lookup step of a webhook delivery whose swap id matches no order
\* marks the delivery's audit record processed with a processingError,
\* changes nothing else of the records, answers HTTP 404 with success false,
\* and neither creates nor changes an order.
C17_UnknownOrderMarked ==
    [][\A w \in Workers :
          ( /\ workers[w].op = "webhook" /\ workers[w].pc = "findOrder"
            /\ StepOf(w)
            /\ FindByShift(workers[w].shiftId) = NoOrder )
          => LET e == workers[w].evt
             IN /\ events'[e].processed = TRUE
                /\ events'[e].processingError = "Order not found"
                /\ events'[e].orderId = NoOrder
                /\ Len(events') = Len(events)
                /\ \A i \in DOMAIN events : i # e => events'[i] = events[i]
                /\ workers'[w].pc = "done"
                /\ workers'[w].resp = 404
                /\ workers'[w].success = FALSE
                /\ orders' = orders
                /\ hookCalls' = hookCalls]_vars

\* a delivery for a swap id no order has was answered 404 while an order
\* exists; its record is marked
C17_Witness ==
    \E w \in Workers, o \in OrderIds :
       /\ orders[o].exists
       /\ workers[w].op = "webhook" /\ workers[w].pc = "done"
       /\ workers[w].shiftId = StrayShift /\ workers[w].resp = 404
       /\ Len(events) = 1
       /\ events[1].processed /\ events[1].processingError = "Order not found"

\* C18: the step that answers a webhook delivery which has an audit record
\* leaves that record processed, and linked to the order's orderId when the
\* swap id matches an order.
C18_AlwaysMarkedProcessed ==
    [][\A w \in Workers :
          ( /\ workers[w].op = "webhook"
            /\ workers[w].pc \in {"findOrder", "updSave"}
            /\ workers'[w].pc = "done" )
          => LET e == workers[w].evt
                 o == FindByShift(workers[w].shiftId)
             IN /\ events'[e].processed = TRUE
                /\ o # NoOrder => events'[e].orderId = o]_vars

\* C19: a direct updateOrderStatus call whose identifier matches no order
\* ends at its lookup with the not-found error handed to the caller, and that
\* step changes no order and calls no completion hook.
C19_UnknownOrderThrows ==
    [][\A w \in Workers :
          ( /\ workers[w].op = "call" /\ workers[w].pc = "updRead"
            /\ StepOf(w)
            /\ FindByOrderId(workers[w].oid) = NoOrder )
          => /\ workers'[w].pc = "done"
             /\ workers'[w].success = FALSE
             /\ workers'[w].error = "not found"
             /\ orders' = orders
             /\ hookCalls' = hookCalls]_vars

\* a direct call for an unknown identifier has failed while an order exists
C19_Witness ==
    \E w \in Workers, o \in OrderIds :
       /\ orders[o].exists
       /\ workers[w].op = "call" /\ workers[w].pc = "done"
       /\ workers[w].oid = StrayOrder /\ workers[w].newStatus = "completed"
       /\ workers[w].error = "not found"
       /\ orders[o].status = "pending" /\ hookCalls[o] = 0

\* C20: a poll of an existing order that has no shiftId ends with an error
\* other than the one a poll of an unknown order ends with.
C20_NoShiftDistinctError ==
    \A w \in Workers :
       ( /\ workers[w].op = "poll" /\ workers[w].pc = "done"
         /\ FindByOrderId(workers[w].oid) # NoOrder
         /\ orders[workers[w].oid].shiftId = NoShift )
       => ~ ( workers[w].resp = 404 /\ workers[w].error = "Order not found" )

\* C21 (requests served one at a time): the step of pollShiftStatus that
\* holds the provider call changes no order and calls no hook; when it goes
\* on to a save, the status to be saved is the table's value for a status the
\* provider answered; and a poll request that ends in this step without
\* success, for an order that exists and has a shiftId, is answered HTTP 500.
C21_ProviderErrorNoTransition ==
    [][\A w \in Workers :
          (workers[w].pc = "pollRead" /\ StepOf(w)) =>
             /\ orders' = orders
             /\ hookCalls' = hookCalls
             /\ workers'[w].pc = "updSave" =>
                   \E st \in ShiftStatuses :
                      /\ workers'[w].note = NotePoll(st)
                      /\ workers'[w].newStatus = StatusTable[st]
             /\ ( /\ workers[w].op = "poll"
                  /\ workers'[w].pc = "done" /\ ~workers'[w].success
                  /\ FindByOrderId(workers[w].oid) # NoOrder
                  /\ orders[workers[w].oid].shiftId # NoShift )
                => /\ workers'[w].resp = 500
                   /\ workers'[w].error # None]_vars

\* a poll of a detecting order was answered 500 and the order is as the
\* webhook before it left it
C21_Witness ==
    \E w \in Workers, o \in OrderIds :
       /\ workers[w].op = "poll" /\ workers[w].pc = "done"
       /\ workers[w].oid = o /\ workers[w].resp = 500
       /\ orders[o].status = "detecting"
       /\ Len(orders[o].statusHistory) = 2
       /\ Last(orders[o].statusHistory).note = NoteWebhook("pending")

\* C22 (requests served one at a time): the poll's table and the webhook's
\* table agree on the eight provider statuses; every save of a poll carries
\* the webhook table's value for a provider status, every save of a webhook
\* the poll table's value; so nothing is saved for a string outside the
\* table, and only saves change an order that exists.
C22_PollMapsLikeWebhook ==
    /\ [](\A st \in ShiftStatuses : pollStatusMap(st) = statusMap(st))
    /\ [][\A w \in Workers :
             (Saves(w) /\ workers[w].op \in {"poll", "sweep"}
                       /\ workers[w].note \notin {NoteQuoteExpired, NoteAbandoned}) =>
                \E st \in ShiftStatuses :
                   /\ workers[w].note = NotePoll(st)
                   /\ workers[w].newStatus = statusMap(st)
                   /\ orders'[workers[w].oid].status = statusMap(st)]_vars
    /\ [][\A w \in Workers :
             (Saves(w) /\ workers[w].op = "webhook") =>
                /\ workers[w].status \in ShiftStatuses
                /\ workers[w].newStatus = pollStatusMap(workers[w].status)
                /\ orders'[workers[w].oid].status = pollStatusMap(workers[w].status)]_vars
    /\ [][\A o \in OrderIds :
             (orders[o].exists /\ orders'[o].status # orders[o].status) =>
                \E w \in Workers : Saves(w) /\ workers[w].oid = o]_vars

\* a poll that was answered refund left the order failed, as a refund webhook
\* does
C22_Witness ==
    \E w \in Workers, o \in OrderIds :
       /\ workers[w].op = "poll" /\ workers[w].pc = "done"
       /\ workers[w].oid = o /\ workers[w].resp = 200
       /\ orders[o].status = "failed"
       /\ Last(orders[o].statusHistory).note = NotePoll("refund")
       /\ Len(orders[o].statusHistory) = 2

\* C23: when nothing but sweeps has run, no order has a second expired
\* statusHistory entry and no order's expiry reminder was emitted twice.
C23_ConcurrentSweeps ==
    nOps = 0 =>
       \A o \in OrderIds :
          /\ Cardinality(Entries(o, "expired")) <= 1
          /\ reminders[o] <= 1

\* C24 (requests served one at a time): the reminder is emitted at most once
\* per order; it is emitted only for an order that is pending, has no deposit
\* hash, is not yet reminded and whose quoteExpiresAt lies strictly between
\* the sweep's now and now plus 2 minutes; the save that follows sets
\* expiryReminderSent and leaves status and statusHistory alone.
C24_ReminderOnce ==
    /\ [](\A o \in OrderIds : reminders[o] <= 1)
    /\ [][\A o \in OrderIds :
             reminders'[o] # reminders[o] =>
                \E w \in Workers :
                   /\ workers'[w].op = "sweep" /\ workers'[w].pc = "remSave"
                   /\ workers'[w].oid = o
                   /\ reminders'[o] = reminders[o] + 1
                   /\ orders[o].status = "pending"
                   /\ orders[o].depositTxHash = None
                   /\ orders[o].expiryReminderSent = FALSE
                   /\ orders[o].quoteExpiresAt > workers'[w].now
                   /\ orders[o].quoteExpiresAt < workers'[w].now + 2]_vars
    /\ [][\A w \in Workers :
             (workers[w].pc = "remSave" /\ StepOf(w)) =>
                LET o == workers[w].oid
                IN /\ orders'[o].expiryReminderSent = TRUE
                   /\ orders'[o].status = orders[o].status
                   /\ orders'[o].statusHistory = orders[o].statusHistory]_vars

\* an order was reminded once, and a second sweep at the same time has come
\* to its end
C24_Witness ==
    \E w \in Workers, o \in OrderIds :
       /\ reminders[o] = 1 /\ orders[o].expiryReminderSent
       /\ orders[o].status = "pending"
       /\ orders[o].quoteExpiresAt > clock
       /\ nSweeps = 2 /\ nOps = 0
       /\ workers[w].op = "sweep" /\ workers[w].pc = "done"

\* C28: every step leaves every order's statusHistory as it is or with one
\* entry more at its end.
C28_HistoryAppendOnly ==
    [][\A o \in OrderIds :
          LET h == orders[o].statusHistory
              g == orders'[o].statusHistory
          IN \/ g = h
             \/ /\ Len(g) = Len(h) + 1
                /\ SubSeq(g, 1, Len(h)) = h]_vars

\* two overlapping updates that both read the order before either saved have
\* both left their entry
C28_Witness ==
    \E o \in OrderIds :
       /\ nRaces = 1
       /\ Len(orders[o].statusHistory) = 3
       /\ orders[o].statusHistory[2].status = "completed"
       /\ orders[o].statusHistory[3].status = "processing"
       /\ orders[o].statusHistory[2].timestamp = orders[o].statusHistory[3].timestamp

\* C30: a step changes the status of an order that exists only when it is
\* the save of an updateOrderStatus call, and no order ever has status
\* underpaid or overpaid.
C30_NoUnderOverpaid ==
    /\ [](\A o \in OrderIds : orders[o].status \notin {"underpaid", "overpaid"})
    /\ [][\A o \in OrderIds :
             (orders[o].exists /\ orders'[o].status # orders[o].status) =>
                \E w \in Workers :
                   /\ Saves(w) /\ workers[w].oid = o
                   /\ orders'[o].status = workers[w].newStatus]_vars

\* an order a webhook, a poll and a sweep have written to
C30_Witness ==
    \E o \in OrderIds :
       /\ nOps = 2 /\ nSweeps = 1
       /\ Len(orders[o].statusHistory) = 4
       /\ \E i, j, k \in 2..4 :
             /\ orders[o].statusHistory[i].note = NoteWebhook("refund")
             /\ orders[o].statusHistory[j].note = NotePoll("waiting")
             /\ orders[o].statusHistory[k].note = NoteQuoteExpired

\* C25 (requests served one at a time): the abandoned rule's query selects
\* exactly the orders that are pending, have no deposit hash and were created
\* more than 24 hours before the sweep's now; the save of the rule leaves
\* such an order expired; every selected order is expired while the sweep is
\* at its last rule and when it returns its summary; and no order ever has
\* more than one expired statusHistory entry.
C25_AbandonedExpired ==
    /\ [][\A w \in Workers :
             ( /\ workers[w].op = "sweep" /\ workers[w].pc = "find"
               /\ workers[w].rule = 3 /\ StepOf(w) )
             => Range(workers'[w].abandonedOrders) =
                   {o \in OrderIds :
                       /\ orders[o].exists
                       /\ orders[o].status = "pending"
                       /\ orders[o].depositTxHash = None
                       /\ orders[o].createdAt + AbandonedAge < workers[w].now}]_vars
    /\ [][\A w \in Workers :
             ( /\ Saves(w) /\ workers[w].note = NoteAbandoned
               /\ workers'[w].resp # 500 ) =>
                /\ orders[workers[w].oid].status = "pending"
                /\ orders'[workers[w].oid].status = "expired"]_vars
    /\ [](\A w \in Workers :
             (workers[w].op = "sweep" /\ workers[w].rule = 4) =>
                \A o \in Range(workers[w].abandonedOrders) :
                   orders[o].status = "expired")
    /\ [][\A w \in Workers :
             ( /\ workers[w].op = "sweep" /\ workers[w].pc # "done"
               /\ workers'[w].pc = "done" /\ workers'[w].resp = 200 )
             => \A o \in Range(workers[w].abandonedOrders) :
                   orders'[o].status = "expired"]_vars
    /\ [](\A o \in OrderIds : Cardinality(Entries(o, "expired")) <= 1)

\* after one sweep: an order only the abandoned rule applied to, and an order
\* both rules applied to, each with one expired entry
C25_Witness ==
    \E w \in Workers, o, p \in OrderIds :
       /\ workers[w].op = "sweep" /\ workers[w].pc = "done"
       /\ workers[w].resp = 200 /\ nSweeps = 1
       /\ orders[o].status = "expired"
       /\ Last(orders[o].statusHistory).note = NoteAbandoned
       /\ orders[o].quoteExpiresAt > clock
       /\ orders[p].status = "expired"
       /\ Last(orders[p].statusHistory).note = NoteQuoteExpired
       /\ orders[p].createdAt + AbandonedAge < clock
       /\ Cardinality(Entries(o, "expired")) = 1
       /\ Cardinality(Entries(p, "expired")) = 1

\* C26 (requests served one at a time): a step of the sweep's stuck-order
\* rule, whether the poll went well or failed, never ends the sweep with an
\* error: it goes on to the save of the polled order, or to the poll of the
\* next candidate, or after the last candidate to the summary.
C26_PollFailureContinues ==
    [][\A w \in Workers :
          ( /\ workers[w].op = "sweep" /\ workers[w].rule = 4
            /\ workers[w].pc \in {"pollRead", "updSave"}
            /\ StepOf(w) )
          => LET i == workers[w].idx
                 L == workers[w].stuckPayments
             IN \/ /\ workers[w].pc = "pollRead"
                   /\ workers'[w].pc = "updSave"
                   /\ workers'[w].idx = i
                   /\ workers'[w].oid = L[i]
                \/ /\ i < Len(L)
                   /\ workers'[w].pc = "pollRead"
                   /\ workers'[w].idx = i + 1
                   /\ workers'[w].oid = L[i + 1]
                \/ /\ i = Len(L)
                   /\ workers'[w].pc = "done"
                   /\ workers'[w].resp = 200
                   /\ workers'[w].success = TRUE]_vars

\* a sweep over two stuck orders returned its summary: the first order is as
\* its webhook left it, the second was changed by its poll
C26_Witness ==
    \E w \in Workers, o, p \in OrderIds :
       /\ o < p
       /\ workers[w].op = "sweep" /\ workers[w].pc = "done"
       /\ workers[w].resp = 200 /\ nSweeps = 1
       /\ orders[o].status = "detecting"
       /\ Last(orders[o].statusHistory).note = NoteWebhook("pending")
       /\ orders[o].updatedAt + StuckAge < clock
       /\ Len(orders[p].statusHistory) = 3
       /\ orders[p].statusHistory[2].note = NoteWebhook("pending")
       /\ orders[p].statusHistory[3].note = NotePoll("settled")
       /\ orders[p].status = "completed"

\* C27: a run of the monitor always ends with its summary (HTTP 200).
C27_SweepNeverThrows ==
    \A w \in Workers :
       (workers[w].op = "sweep" /\ workers[w].pc = "done") =>
          workers[w].resp = 200

\* C29: with two orders stored, no step of a direct updateOrderStatus call
\* (its lookup and guard, its save, a failing save) changes any field of an
\* order other than the one the call addresses.
C29_OtherOrdersUntouched ==
    [][\A w \in Workers :
          (workers[w].op = "call" /\ StepOf(w)) =>
             \A p \in OrderIds :
                p # workers[w].oid => orders'[p] = orders[p]]_vars

\* two orders are stored, a call on the second has moved it to detecting,
\* and the first is as createPayment stored it
C29_Witness ==
    \E w \in Workers :
       /\ orders[1].exists /\ orders[2].exists
       /\ workers[w].op = "call" /\ workers[w].pc = "done"
       /\ workers[w].oid = 2 /\ workers[w].success
       /\ orders[2].status = "detecting"
       /\ Len(orders[2].statusHistory) = 2
       /\ orders[1].status = "pending"
       /\ Len(orders[1].statusHistory) = 1
       /\ orders[1].updatedAt = orders[1].createdAt
       /\ orders[2].updatedAt > orders[2].createdAt

C33_DepositNotExpired ==
    [][\A w \in Workers :
          ( /\ workers[w].op = "sweep" /\ workers[w].rule \in {1, 3}
            /\ Saves(w) )
          => /\ workers[w].docStatus = "pending"
             /\ workers[w].docDeposit = None]_vars

\* C34: every stored order has a history that is not empty and whose last
\* entry carries the order's status.
C34_LastEntryIsStatus ==
    \A o \in OrderIds :
       orders[o].exists =>
          /\ Len(orders[o].statusHistory) >= 1
          /\ Last(orders[o].statusHistory).status = orders[o].status

\* C35 (requests served one at a time): completedAt is set exactly when the
\* status is completed, and exactly when the history has a completed entry.
C35_CompletedAtIffCompleted ==
    \A o \in OrderIds :
       orders[o].exists =>
          /\ (orders[o].completedAt # NoTime) <=> (orders[o].status = "completed")
          /\ (orders[o].completedAt # NoTime) <=> (Entries(o, "completed") # {})

\* an order was completed after time had passed since its creation
C35_Witness ==
    \E o \in OrderIds :
       /\ orders[o].exists /\ orders[o].status = "completed"
       /\ orders[o].completedAt > orders[o].createdAt
       /\ Last(orders[o].statusHistory).timestamp = orders[o].completedAt
       /\ hookCalls[o] = 1

\* C37: a step changes an order's depositTxHash or settleTxHash only as the
\* save of an updateOrderStatus call for that order whose metadata has the
\* new value; a recorded hash is never cleared; and a call that finds its
\* order completed, refunded or expired changes no order.
C37_HashesOnlyFromMetadata ==
    [][/\ \A o \in OrderIds :
            /\ orders'[o].depositTxHash # orders[o].depositTxHash =>
                  \E w \in Workers :
                     /\ Saves(w) /\ workers[w].oid = o
                     /\ workers[w].mDeposit # None
                     /\ orders'[o].depositTxHash = workers[w].mDeposit
            /\ orders'[o].settleTxHash # orders[o].settleTxHash =>
                  \E w \in Workers :
                     /\ Saves(w) /\ workers[w].oid = o
                     /\ workers[w].mSettle # None
                     /\ orders'[o].settleTxHash = workers[w].mSettle
            /\ (orders[o].exists /\ orders[o].depositTxHash # None) =>
                  orders'[o].depositTxHash # None
            /\ (orders[o].exists /\ orders[o].settleTxHash # None) =>
                  orders'[o].settleTxHash # None
       /\ \A w \in Workers :
            ( /\ workers[w].pc = "updRead" /\ StepOf(w)
              /\ FindByOrderId(workers[w].oid) # NoOrder
              /\ orders[workers[w].oid].status \in GuardedStatuses )
            => /\ orders' = orders
               /\ workers'[w].pc # "updSave"]_vars

\* an order with a recorded deposit hash whose latest save came from a call
\* of the monitor, which passes no hash
C37_Witness ==
    \E o \in OrderIds :
       /\ orders[o].exists
       /\ orders[o].depositTxHash # None
       /\ Last(orders[o].statusHistory).note \in {NoteQuoteExpired, NoteAbandoned}

\* C32: no step of a run of the monitor that follows another run at the same
\* time, with nothing in between, changes an order's status, history, hashes,
\* reminder flag or completedAt, or emits a reminder or a completion hook.
C32_SweepIdempotent ==
    [][nSweeps = 2 =>
          /\ \A o \in OrderIds :
                /\ orders'[o].status = orders[o].status
                /\ orders'[o].statusHistory = orders[o].statusHistory
                /\ orders'[o].depositTxHash = orders[o].depositTxHash
                /\ orders'[o].settleTxHash = orders[o].settleTxHash
                /\ orders'[o].expiryReminderSent = orders[o].expiryReminderSent
                /\ orders'[o].completedAt = orders[o].completedAt
          /\ reminders' = reminders
          /\ hookCalls' = hookCalls]_vars

\* the conditions of the monitor's rules 1, 3 and 4 on a document d
Candidate(d, now) ==
    /\ d.exists
    /\ \/ /\ d.status = "pending"
          /\ d.depositTxHash = None
          /\ \/ d.quoteExpiresAt < now
             \/ d.createdAt + AbandonedAge < now
       \/ /\ d.status \in {"detecting", "processing", "settling"}
          /\ d.updatedAt + StuckAge < now
          /\ d.shiftId # NoShift

\* C36 (requests served one at a time): a step taken while a run of the
\* monitor is going on changes the status or the history only of an order
\* that met the condition of rule 1, 3 or 4 when the run started.
C36_SweepFrame ==
    [][\A w \in Workers :
          (workers[w].op = "sweep" /\ workers[w].pc # "done") =>
             \A o \in OrderIds :
                ( \/ orders'[o].status # orders[o].status
                  \/ orders'[o].statusHistory # orders[o].statusHistory )
                => Candidate(workers[w].atStart[o], workers[w].now)]_vars

\* a run has returned its summary: it expired one order and left alone an
\* order in flight that a webhook had updated within the hour
C36_Witness ==
    \E w \in Workers, o, p \in OrderIds :
       /\ workers[w].op = "sweep" /\ workers[w].pc = "done"
       /\ workers[w].resp = 200
       /\ orders[o].status = "expired"
       /\ Last(orders[o].statusHistory).timestamp = clock
       /\ orders[p].exists
       /\ orders[p].status \in {"detecting", "processing", "settling"}
       /\ orders[p].updatedAt + StuckAge >= clock
       /\ orders[p].updatedAt < clock
       /\ Len(orders[p].statusHistory) = 2

\* C39: the cron route starts the monitor only when CRON_SECRET is set and
\* the authorization header is its bearer form; every other request ends
\* with 401 at once, and changes no order and emits no reminder.
C39_CronAuthorized ==
    [][\A w \in Workers, op \in {"sweep", "cron"} :
          Arrival(w, op) =>
             IF /\ workers'[w].secret # Unset
                /\ workers'[w].auth = "Bearer " \o workers'[w].secret
             THEN workers'[w].op = "sweep"
             ELSE /\ workers'[w].op = "cron"
                  /\ workers'[w].pc = "done"
                  /\ workers'[w].resp = 401
                  /\ orders' = orders
                  /\ reminders' = reminders]_vars

\* C38: only the last step of createPayment, taken after the quote and the
\* shift were both received, stores an order; the arrival of a checkout
\* request and every step that ends one with an error leave the store as it
\* is.
C38_NoPartialOrder ==
    /\ [][orders' # orders =>
             \E w \in Workers :
                /\ workers[w].op = "create" /\ workers[w].pc = "store"
                /\ workers[w].quote # None /\ workers[w].posted = 2
                /\ workers'[w].pc = "done" /\ workers'[w].success
                /\ \E o \in OrderIds :
                      /\ ~orders[o].exists /\ orders'[o].exists
                      /\ \A p \in OrderIds \ {o} : orders'[p] = orders[p]]_vars
    /\ [][\A w \in Workers :
             ( /\ workers'[w].op = "create" /\ StepOf(w)
               /\ workers'[w].pc = "done" /\ ~workers'[w].success )
             => orders' = orders]_vars
    /\ [](\A w \in Workers :
             (workers[w].op = "create" /\ workers[w].pc = "shift") =>
                workers[w].quote # None /\ workers[w].posted = 1)

\* a checkout failed at the swap, after its quote was received, and another
\* failed for the missing settlement address; no order is stored
C38_Witness ==
    \E w, v \in Workers :
       /\ workers[w].op = "create" /\ workers[w].pc = "done"
       /\ workers[w].resp = 502 /\ workers[w].posted = 2
       /\ workers[w].quote # None
       /\ workers[v].op = "create" /\ workers[v].pc = "done"
       /\ workers[v].resp = 500 /\ workers[v].posted = 0
       /\ \A o \in OrderIds : ~orders[o].exists

\* C40: requestQuote called with both amounts, or with neither, ends with
\* an error and sends nothing to the provider.
C40_ExactlyOneAmount ==
    [][\A w \in Workers :
          ( /\ workers[w].pc = "quote" /\ StepOf(w)
            /\ (workers[w].depositAmount # None) = (workers[w].settleAmount # None) )
          => /\ workers'[w].pc = "done"
             /\ ~workers'[w].success
             /\ workers'[w].error \in {"not both", "must specify"}
             /\ workers'[w].posted = workers[w].posted]_vars

\* C10: no step moves an order's status to a lower rank of
\* pending < detecting < processing < settling < terminal.
C10_Monotonic ==
    [][\A o \in OrderIds :
          orders[o].exists => Rank(orders'[o].status) >= Rank(orders[o].status)]_vars

====
